---- MODULE Spec2Model ----
(***************************************************************************)
(* Cloud partition scrubber: archival::scrubber (src/v/archival/scrubber.cc)*)
(* driving cloud_storage::anomalies_detector                               *)
(* (src/v/cloud_storage/anomalies_detector.cc).                            *)
(*                                                                         *)
(* The detector and the scrubber are seastar coroutines on one reactor     *)
(* thread: code between two co_await points runs atomically, and other     *)
(* tasks (interrupt, stop, acquire, ...) run only while a remote call is   *)
(* in flight.  Every action below is therefore "a call completes, and the  *)
(* coroutine runs on until it issues its next call or returns".            *)
(***************************************************************************)
EXTENDS Integers, Sequences, FiniteSets, TLC

\* ------------------------------------------------------------------ bounds
\* Most spillover descriptors a downloaded partition manifest records.
MaxSpill == 2
\* Most segments a partition manifest holds.
MaxSegs == 2
\* Most segments a spillover manifest holds.
MaxSpillSegs == 1
\* Width in bits of run_quota_t::type (ssize_t) and of result::ops (size_t).
QuotaBits == 4

SignedMax == 2 ^ (QuotaBits - 1) - 1
UnsignedMod == 2 ^ QuotaBits

\* ------------------------------------------------------------- data model
DownloadResult == {"success", "notfound", "timedout", "failed"}
ManifestFormat == {"json", "serde"}
ScrubStatus == {"full", "partial", "failed"}
CallKinds == {"main_dl", "spill_exists", "seg_exists", "spill_dl"}

NoSeg == [base_offset |-> -1, committed_offset |-> -1]

\* A segment_meta: one offset per segment, so two segments are adjacent
\* exactly when their offsets are consecutive.
SegmentMeta(g) == [base_offset |-> g, committed_offset |-> g]

\* The offsets the k-th spillover manifest may cover (1..n, oldest first),
\* and those of the partition manifest that records n spillover manifests.
SpillSlots(k) == ((k - 1) * MaxSpillSegs + 1) .. (k * MaxSpillSegs)
StmSlots(n) == (n * MaxSpillSegs + 1) .. (n * MaxSpillSegs + MaxSegs)

\* spillover_manifest_path_components of the k-th spillover descriptor.
SpillComp(k) == [base |-> (k - 1) * MaxSpillSegs + 1, last |-> k * MaxSpillSegs]

RECURSIVE SegsOf(_)
SegsOf(S) ==
    IF S = {} THEN <<>>
    ELSE LET m == CHOOSE x \in S : \A y \in S : x <= y
         IN <<SegmentMeta(m)>> \o SegsOf(S \ {m})

\* What a download of a manifest may decode to: any ascending run of
\* segments inside its range, the empty manifest included.
ManifestContents(slots) == {SegsOf(S) : S \in SUBSET slots}

\* What try_download_partition_manifest may decode: n spillover descriptors
\* (ascending by offset) and the segments of the partition manifest.
PartitionManifests ==
    {[segs |-> s, spillovers |-> [k \in 1 .. n |-> SpillComp(k)]] :
        <<n, s>> \in UNION {{<<n, s>> : s \in ManifestContents(StmSlots(n))} : n \in 0 .. MaxSpill}}

EmptyAnomalies ==
    [missing_partition_manifest |-> FALSE,
     missing_spillover_manifests |-> {},
     missing_segments |-> {},
     segment_metadata_anomalies |-> {}]

\* anomalies::operator+= : union of all four fields.
AnomaliesMerge(a, b) ==
    [missing_partition_manifest |->
        a.missing_partition_manifest \/ b.missing_partition_manifest,
     missing_spillover_manifests |->
        a.missing_spillover_manifests \cup b.missing_spillover_manifests,
     missing_segments |-> a.missing_segments \cup b.missing_segments,
     segment_metadata_anomalies |->
        a.segment_metadata_anomalies \cup b.segment_metadata_anomalies]

\* scrub_segment_meta(current, previous, detected): the offset checks between
\* a segment and the one before it.
ScrubSegmentMeta(current, previous, detected) ==
    IF previous = NoSeg THEN detected
    ELSE IF current.base_offset > previous.committed_offset + 1
         THEN detected \cup {[type |-> "offset_gap", at |-> current, previous |-> previous]}
    ELSE IF current.base_offset < previous.committed_offset + 1
         THEN detected \cup {[type |-> "offset_overlap", at |-> current, previous |-> previous]}
    ELSE detected

\* anomalies_detector::result{}
EmptyResult == [status |-> "full", detected |-> EmptyAnomalies, ops |-> 0]

\* ++ on a size_t
Inc(n) == (n + 1) % UnsignedMod

\* ResultMerge testing for partial before failed.
ResultMergePartialFirst(a, b) ==
    [status |-> IF a.status = "partial" \/ b.status = "partial" THEN "partial"
                ELSE IF a.status = "failed" \/ b.status = "failed" THEN "failed"
                ELSE "full",
     ops |-> (a.ops + b.ops) % UnsignedMod,
     detected |-> AnomaliesMerge(a.detected, b.detected)]

\* anomalies_detector::result::operator+=
ResultMerge(a, b) ==
    [status |-> IF a.status = "failed" \/ b.status = "failed" THEN "failed"
                ELSE IF a.status = "partial" \/ b.status = "partial" THEN "partial"
                ELSE "full",
     ops |-> (a.ops + b.ops) % UnsignedMod,
     detected |-> AnomaliesMerge(a.detected, b.detected)]

\* --------------------------------------------------------------- variables
VARIABLES
    as,              \* _as.abort_requested()
    gate_count,      \* _gate.get_count(): holders of the gate
    gate_closed,     \* _gate.is_closed()
    holder,          \* _holder: "none" (nullopt), "held", "released"
    job_enabled,     \* _job_enabled
    config_enabled,  \* _config_enabled()
    feature_active,  \* _feature_table.is_active(cloud_storage_scrubbing)
    feature_task,    \* await_feature_enabled(): "waiting", "woken", "aborted", "done"
    next_scrub,      \* _scheduler: "none" (no target), "future", "due"
    crashed,         \* a vassert failed: the process is gone
    run,             \* frame of scrubber::run
    det,             \* frame of anomalies_detector::run, and the log of its calls
    last,            \* what the latest call of scrubber::run gave its caller
    operands,        \* results operator+= is applied to, and what it gave
    remote,          \* what the remote has answered so far, when it is held fixed
    earlier          \* what the detector returned the time before

vars == <<as, gate_count, gate_closed, holder, job_enabled, config_enabled,
          feature_active, feature_task, next_scrub, crashed, run, det, last,
          operands, remote, earlier>>

\* What the scrubber never touches: the operands of the specification of
\* operator+= and the fixed remote of the specification of repeated runs.
Aside == <<operands, remote, earlier>>

NoResult == [status |-> "none", detected |-> EmptyAnomalies, ops |-> 0]
NoCalls == [k \in CallKinds |-> 0]
NoSnapshot == [k \in CallKinds |-> -1]

\* The detector's coroutine frame.  `at` is the remote call in flight
\* ("none": no run; "returned": co_return done).  Locals that are dead at a
\* suspension point hold their default value.  The fields from `calls` on are
\* a log of what the run did to the remote; no transition reads them.
IdleFrame ==
    [at |-> "none",
     status |-> "full", detected |-> EmptyAnomalies, ops |-> 0,
     dl_result |-> "none", format |-> "none",
     manifest |-> <<>>, spillovers |-> <<>>, iter |-> 0,
     spill_manifest_paths |-> <<>>,
     final_res |-> EmptyResult,
     first_seg_previous_manifest |-> NoSeg,
     path_idx |-> 0,
     spill |-> <<>>,
     cm_of |-> "none", seg_iter |-> 0, res |-> EmptyResult,
     previous_seg_meta |-> NoSeg,
     ret |-> NoResult,
     calls |-> NoCalls,
     main_seen |-> [result |-> "none", format |-> "none", spillovers |-> 0],
     exists_seen |-> [k \in 1 .. MaxSpill |-> "none"],
     retained |-> {},
     dl_issued |-> {},
     seg_notfound |-> {},
     compared |-> {},
     cancel_phase |-> "none",
     cancel_calls |-> NoSnapshot]

Total(c) == c["main_dl"] + c["spill_exists"] + c["seg_exists"] + c["spill_dl"]

\* The descriptor a spillover manifest path was generated from.
DescOf(comp) == comp.last \div MaxSpillSegs

\* ---------------------------------------------------- anomalies_detector
Range(q) == {q[i] : i \in 1 .. Len(q)}

\* What a remote call answered, as the call log keeps it.
Answer(r) == IF r \in {"success", "notfound"} THEN r ELSE "failure"

\* The coroutine suspends on a remote call.
IssueCall(d, kind) == [d EXCEPT !.at = kind, !.calls[kind] = @ + 1]

\* A cancellation checkpoint saw abort_requested(): remember the calls so far.
Observe(d) ==
    IF d.cancel_calls = NoSnapshot THEN [d EXCEPT !.cancel_calls = d.calls] ELSE d

\* co_return: the frame is destroyed, the call log stays.
Return(d, r) ==
    [IdleFrame EXCEPT !.at = "returned", !.ret = r,
                      !.calls = d.calls, !.main_seen = d.main_seen,
                      !.exists_seen = d.exists_seen, !.retained = d.retained,
                      !.dl_issued = d.dl_issued,
                      !.seg_notfound = d.seg_notfound,
                      !.compared = d.compared,
                      !.cancel_phase = d.cancel_phase,
                      !.cancel_calls = d.cancel_calls]

\* SpillLoop without its cancellation checkpoint.
SpillLoopNoCheckpoint(d, abort) ==
    IF d.path_idx > Len(d.spill_manifest_paths)
    THEN Return(d, d.final_res)
    ELSE IssueCall([d EXCEPT !.final_res.ops = Inc(@),
                             !.dl_issued = @ \cup {d.spill_manifest_paths[d.path_idx]}],
                   "spill_dl")

\* Head of the loop over spill_manifest_paths, up to the download it issues.
SpillLoop(d, abort) ==
    IF d.path_idx > Len(d.spill_manifest_paths)
    THEN Return(d, d.final_res)
    ELSE IF abort
    THEN Return(Observe(d), [d.final_res EXCEPT !.status = "partial"])
    ELSE IssueCall([d EXCEPT !.final_res.ops = Inc(@),
                             !.dl_issued = @ \cup {d.spill_manifest_paths[d.path_idx]}],
                   "spill_dl")

\* check_manifest has returned d.res to run: merge it, move the boundary
\* segment, go on with the spillover chain.
CheckDone(d, abort) ==
    LET merged == ResultMerge(d.final_res, d.res)
        m == IF d.cm_of = "stm" THEN d.manifest ELSE d.spill
        boundary == IF m # <<>> THEN Head(m)
                    ELSE IF d.cm_of = "stm" THEN NoSeg
                    ELSE d.first_seg_previous_manifest
    IN SpillLoop([d EXCEPT !.final_res = merged,
                           !.first_seg_previous_manifest = boundary,
                           !.path_idx = IF d.cm_of = "stm" THEN 1 ELSE @ + 1,
                           !.manifest = <<>>, !.spill = <<>>,
                           !.cm_of = "none", !.seg_iter = 0,
                           !.res = EmptyResult,
                           !.previous_seg_meta = NoSeg], abort)

\* CheckLoop without its cancellation checkpoint.
CheckLoopNoCheckpoint(d, abort) ==
    LET m == IF d.cm_of = "stm" THEN d.manifest ELSE d.spill
    IN IF d.seg_iter > Len(m) THEN CheckDone(d, abort)
       ELSE IssueCall(d, "seg_exists")

\* Head of the segment loop of check_manifest, up to the existence check it
\* issues.
CheckLoop(d, abort) ==
    LET m == IF d.cm_of = "stm" THEN d.manifest ELSE d.spill
    IN IF d.seg_iter > Len(m) THEN CheckDone(d, abort)
       ELSE IF abort
       THEN CheckDone([Observe(d) EXCEPT !.res.status = "partial"], abort)
       ELSE IssueCall(d, "seg_exists")

\* check_manifest(manifest, rtc_node) is called.
CheckManifest(d, of, abort) ==
    CheckLoop([d EXCEPT !.cm_of = of, !.seg_iter = 1, !.res = EmptyResult,
                        !.previous_seg_meta = NoSeg], abort)

\* OnSegExists going on to the next segment as soon as the existence check
\* has failed, without the comparison with the predecessor.
OnSegExistsSkipOnFailure(d, r, abort) ==
    LET m == IF d.cm_of = "stm" THEN d.manifest ELSE d.spill
        seg_meta == m[d.seg_iter]
        counted == [d.res EXCEPT !.ops = Inc(@)]
        failure == r \notin {"success", "notfound"}
        checked ==
            IF r = "notfound"
            THEN [counted EXCEPT !.detected.missing_segments = @ \cup {seg_meta}]
            ELSE IF r # "success"
            THEN [counted EXCEPT !.status = "partial"]
            ELSE counted
        scrubbed ==
            IF failure THEN checked
            ELSE [checked EXCEPT !.detected.segment_metadata_anomalies =
                    ScrubSegmentMeta(seg_meta, d.previous_seg_meta, @)]
    IN CheckLoop([d EXCEPT !.res = scrubbed,
                           !.previous_seg_meta = IF failure THEN @ ELSE seg_meta,
                           !.seg_iter = @ + 1,
                           !.seg_notfound =
                               IF r = "notfound" THEN @ \cup {seg_meta} ELSE @,
                           !.compared =
                               IF ~failure /\ d.previous_seg_meta # NoSeg
                               THEN @ \cup {<<seg_meta, d.previous_seg_meta>>}
                               ELSE @],
                 abort)

\* segment_exists of check_manifest completes with r.
OnSegExists(d, r, abort) ==
    LET m == IF d.cm_of = "stm" THEN d.manifest ELSE d.spill
        seg_meta == m[d.seg_iter]
        counted == [d.res EXCEPT !.ops = Inc(@)]
        checked ==
            IF r = "notfound"
            THEN [counted EXCEPT !.detected.missing_segments = @ \cup {seg_meta}]
            ELSE IF r # "success"
            THEN [counted EXCEPT !.status = "partial"]
            ELSE counted
        scrubbed ==
            [checked EXCEPT !.detected.segment_metadata_anomalies =
                ScrubSegmentMeta(seg_meta, d.previous_seg_meta, @)]
    IN CheckLoop([d EXCEPT !.res = scrubbed,
                           !.previous_seg_meta = seg_meta,
                           !.seg_iter = @ + 1,
                           !.seg_notfound =
                               IF r = "notfound" THEN @ \cup {seg_meta} ELSE @,
                           !.compared =
                               IF d.previous_seg_meta # NoSeg
                               THEN @ \cup {<<seg_meta, d.previous_seg_meta>>}
                               ELSE @],
                 abort)

\* JsonWithSpillovers testing for the other encoding.
JsonWithSpilloversWrongFormat(format, spill_manifest_paths) ==
    format = "serde" /\ Len(spill_manifest_paths) > 0

\* A JSON encoded manifest next to spillover manifests.
JsonWithSpillovers(format, spill_manifest_paths) ==
    format = "json" /\ Len(spill_manifest_paths) > 0

\* The spillover loop is over: the JSON check, final_res, check_manifest of
\* the partition manifest.
AfterSpillovers(d, abort) ==
    LET detected ==
            IF JsonWithSpillovers(d.format, d.spill_manifest_paths)
            THEN [d.detected EXCEPT !.missing_partition_manifest = TRUE]
            ELSE d.detected
        final_res == [status |-> d.status, detected |-> detected, ops |-> d.ops]
    IN CheckManifest([d EXCEPT !.final_res = final_res,
                               !.status = "full", !.detected = EmptyAnomalies,
                               !.ops = 0, !.spillovers = <<>>, !.iter = 0,
                               !.dl_result = "none", !.format = "none",
                               !.retained = Range(d.spill_manifest_paths)],
                     "stm", abort)

\* Head of the loop over the spillover map, up to the existence check it
\* issues.
SpilloverLoop(d, abort) ==
    IF d.iter > Len(d.spillovers) THEN AfterSpillovers(d, abort)
    ELSE IssueCall(d, "spill_exists")

\* SpillExistsBranch with the NotFound test inverted.
SpillExistsBranchInverted(exists_result, dl_result) ==
    IF exists_result # "notfound" THEN "missing"
    ELSE IF dl_result # "success" THEN "partial"
    ELSE "retain"

\* The branch run takes on the answer of a spillover existence check; the
\* second test reads dl_result, the result of the partition manifest download.
SpillExistsBranch(exists_result, dl_result) ==
    IF exists_result = "notfound" THEN "missing"
    ELSE IF dl_result # "success" THEN "partial"
    ELSE "retain"

\* segment_exists of a spillover manifest path completes with exists_result.
OnSpillExists(d, exists_result, abort) ==
    LET comp == d.spillovers[d.iter]
        counted == [d EXCEPT !.ops = Inc(@),
                             !.exists_seen[d.iter] = Answer(exists_result)]
        branch == SpillExistsBranch(exists_result, d.dl_result)
        handled ==
            IF branch = "missing"
            THEN [counted EXCEPT
                    !.detected.missing_spillover_manifests = @ \cup {comp}]
            ELSE IF branch = "partial"
            THEN [counted EXCEPT !.status = "partial"]
            ELSE [counted EXCEPT !.spill_manifest_paths = <<comp>> \o @]
    IN SpilloverLoop([handled EXCEPT !.iter = @ + 1], abort)

\* MainDlBranch testing for failure before NotFound.
MainDlBranchNotFoundFails(dl_result) ==
    IF dl_result # "success" THEN "failed"
    ELSE IF dl_result = "notfound" THEN "missing"
    ELSE "proceed"

\* MainDlBranch taking only download_result::failed for a failure.
MainDlBranchOnlyFailed(dl_result) ==
    IF dl_result = "notfound" THEN "missing"
    ELSE IF dl_result = "failed" THEN "failed"
    ELSE "proceed"

\* The branch run takes on the result of the partition manifest download.
MainDlBranch(dl_result) ==
    IF dl_result = "notfound" THEN "missing"
    ELSE IF dl_result # "success" THEN "failed"
    ELSE "proceed"

\* try_download_partition_manifest completes with <<dl_result, format>> and
\* the decoded manifest.
OnMainDl(d, dl_result, format, manifest, abort) ==
    LET counted ==
            [d EXCEPT !.ops = Inc(@),
                      !.main_seen = [result |-> dl_result, format |-> format,
                                     spillovers |-> Len(manifest.spillovers)]]
    IN IF MainDlBranch(dl_result) = "missing"
       THEN Return(counted,
                   [status |-> counted.status,
                    detected |-> [counted.detected EXCEPT
                                    !.missing_partition_manifest = TRUE],
                    ops |-> counted.ops])
       ELSE IF MainDlBranch(dl_result) = "failed"
       THEN Return(counted, [EmptyResult EXCEPT !.status = "failed",
                                                !.ops = counted.ops])
       ELSE SpilloverLoop([counted EXCEPT !.dl_result = dl_result,
                                          !.format = format,
                                          !.manifest = manifest.segs,
                                          !.spillovers = manifest.spillovers,
                                          !.iter = 1], abort)

\* download_spill_manifest: nullopt unless the download succeeded.
DownloadSpillManifest(manifest_get_result, content) ==
    IF manifest_get_result # "success" THEN [some |-> FALSE, segs |-> <<>>]
    ELSE [some |-> TRUE, segs |-> content]

\* download_spill_manifest of the current path completes.
OnSpillDl(d, manifest_get_result, content, abort) ==
    LET spill == DownloadSpillManifest(manifest_get_result, content)
        seen == d
    IN IF spill.some
       THEN LET last_in_spill ==
                    IF spill.segs = <<>> THEN NoSeg
                    ELSE spill.segs[Len(spill.segs)]
                anoms ==
                    IF last_in_spill # NoSeg /\ d.first_seg_previous_manifest # NoSeg
                    THEN ScrubSegmentMeta(
                             d.first_seg_previous_manifest, last_in_spill,
                             d.final_res.detected.segment_metadata_anomalies)
                    ELSE d.final_res.detected.segment_metadata_anomalies
            IN CheckManifest(
                   [seen EXCEPT !.final_res.detected.segment_metadata_anomalies = anoms,
                                !.spill = spill.segs],
                   "spill", abort)
       ELSE SpillLoop([seen EXCEPT !.final_res.status = "partial",
                                   !.first_seg_previous_manifest = NoSeg,
                                   !.path_idx = @ + 1], abort)

\* DetectorRun with the operation count outliving the call.
DetectorRunKeepsOps == IssueCall([IdleFrame EXCEPT !.ops = det.ret.ops], "main_dl")

\* anomalies_detector::run is called: the partition manifest download is
\* issued before any cancellation checkpoint.
DetectorRun == IssueCall(IdleFrame, "main_dl")

\* The part of the run a cancellation request falls into.
Phase(d) ==
    IF d.at \in {"main_dl", "spill_exists", "returned"} THEN d.at
    ELSE IF d.at = "seg_exists" /\ d.cm_of = "stm" THEN "stm_check"
    ELSE IF d.at \in {"seg_exists", "spill_dl"} THEN "chain"
    ELSE "none"

\* ---------------------------------------------------------------- scrubber
\* Quotas a caller passes to scrubber::run.
Quotas == {-1, SignedMax}

\* cluster::errc values process_anomalies may report.
ReplicateResults == {"success", "not_leader", "timeout"}

IdleRun ==
    [pc |-> "idle", quota |-> 0, consumed |-> 0, remaining |-> 0,
     detect_result |-> NoResult, submitted |-> NoResult,
     process_anomalies_calls |-> 0, cancelled |-> FALSE]

NoLast ==
    [status |-> "none", reason |-> "none", quota |-> 0, consumed |-> 0,
     remaining |-> 0, ops |-> 0, detect_status |-> "none",
     process_anomalies_calls |-> 0, picks |-> 0, cancelled |-> FALSE,
     replicate_result |-> "none"]

\* scrubber_scheduler::should_scrub / until_next_scrub / pick_next_scrub_time
ShouldScrub(ns) == ns = "due"
UntilNextScrub(ns) == IF ns = "none" THEN "nullopt" ELSE "some"
PickNextScrubTime(ns) == "future"

\* should_skip asking the cluster config before the job toggle.
ShouldSkipConfigFirst ==
    IF ~feature_active
    THEN [skip |-> TRUE, reason |-> "cloud_storage_scrubbing feature not active"]
    ELSE IF ~config_enabled
    THEN [skip |-> TRUE, reason |-> "scrubber disabled via cluster config"]
    ELSE IF ~job_enabled
    THEN [skip |-> TRUE, reason |-> "scrubber housekeeping job disabled"]
    ELSE IF ~ShouldScrub(next_scrub)
    THEN IF UntilNextScrub(next_scrub) = "nullopt"
         THEN [skip |-> TRUE, reason |-> "next scrub not scheduled"]
         ELSE [skip |-> TRUE, reason |-> "next scrub in"]
    ELSE [skip |-> FALSE, reason |-> "none"]

\* scrubber::should_skip
ShouldSkip ==
    IF ~feature_active
    THEN [skip |-> TRUE, reason |-> "cloud_storage_scrubbing feature not active"]
    ELSE IF ~job_enabled
    THEN [skip |-> TRUE, reason |-> "scrubber housekeeping job disabled"]
    ELSE IF ~config_enabled
    THEN [skip |-> TRUE, reason |-> "scrubber disabled via cluster config"]
    ELSE IF ~ShouldScrub(next_scrub)
    THEN IF UntilNextScrub(next_scrub) = "nullopt"
         THEN [skip |-> TRUE, reason |-> "next scrub not scheduled"]
         ELSE [skip |-> TRUE, reason |-> "next scrub in"]
    ELSE [skip |-> FALSE, reason |-> "none"]

\* Consumed as a plain static_cast of the unsigned count.
ConsumedWrapping(ops) == IF ops > SignedMax THEN ops - UnsignedMod ELSE ops

\* The saturating cast of result::ops into run_quota_t.
Consumed(ops) == IF ops > SignedMax THEN SignedMax ELSE ops

Remaining(quota, consumed) == IF consumed >= quota THEN 0 ELSE quota - consumed

\* The run_result of a skipped run.
SkippedResult(quota) == [consumed |-> 0, remaining |-> quota]

\* No operands drawn; a remote that has answered nothing yet.
NoOperands ==
    [step |-> 0, x |-> NoResult, y |-> NoResult, z |-> NoResult,
     xy |-> NoResult, yx |-> NoResult, yz |-> NoResult,
     xy_z |-> NoResult, x_yz |-> NoResult]
UnsetRemote ==
    [main |-> {},
     exists |-> [k \in 1 .. MaxSpill |-> {}],
     dl |-> [k \in 1 .. MaxSpill |-> {}],
     seg |-> [g \in 1 .. MaxSpill * MaxSpillSegs + MaxSegs |-> {}]]

\* The scrubber as its constructor leaves it.
Constructed ==
    /\ as = FALSE
    /\ gate_count = 1
    /\ gate_closed = FALSE
    /\ holder = "none"
    /\ job_enabled = TRUE
    /\ config_enabled \in BOOLEAN
    /\ feature_active = FALSE
    /\ feature_task = "waiting"
    /\ next_scrub = "none"
    /\ crashed = FALSE
    /\ run = IdleRun
    /\ det = IdleFrame
    /\ last = NoLast

Init ==
    /\ Constructed
    /\ operands = NoOperands
    /\ remote = UnsetRemote
    /\ earlier = NoResult

\* GateEnter leaving the count of the gate as it was.
GateEnterNoHold(count) == count

\* ss::gate::holder(_gate) on an open gate: one more holder.
GateEnter(count) == count + 1

\* scrubber::run up to its first suspension: the gate holder, should_skip,
\* and the call of the detector.  The housekeeping service that owns the job
\* runs it once at a time.
Run(quota) ==
    /\ ~crashed
    /\ run.pc = "idle"
    /\ IF gate_closed
       THEN /\ last' = [NoLast EXCEPT !.status = "gate_closed_exception",
                                      !.quota = quota]
            /\ UNCHANGED <<run, det, gate_count>>
       ELSE IF ShouldSkip.skip
       THEN /\ last' = [NoLast EXCEPT !.status = "skipped",
                                      !.reason = ShouldSkip.reason,
                                      !.quota = quota,
                                      !.consumed = SkippedResult(quota).consumed,
                                      !.remaining = SkippedResult(quota).remaining]
            /\ UNCHANGED <<run, det, gate_count>>
       ELSE /\ run' = [IdleRun EXCEPT !.pc = "detecting", !.quota = quota]
            /\ det' = [DetectorRun EXCEPT
                         !.cancel_phase = IF as THEN "before" ELSE "none"]
            /\ gate_count' = GateEnter(gate_count)
            /\ last' = NoLast
    /\ UNCHANGED <<as, gate_closed, holder, job_enabled, config_enabled,
                   feature_active, feature_task, next_scrub, crashed>>
    /\ UNCHANGED Aside

Frame == <<as, gate_count, gate_closed, holder, job_enabled, config_enabled,
           feature_active, feature_task, next_scrub, crashed, run, last,
           operands, remote, earlier>>

MainDlDone(dl_result, format, manifest) ==
    /\ ~crashed
    /\ det.at = "main_dl"
    /\ det' = OnMainDl(det, dl_result, format, manifest, as)
    /\ UNCHANGED Frame

SpillExistsDone(exists_result) ==
    /\ ~crashed
    /\ det.at = "spill_exists"
    /\ det' = OnSpillExists(det, exists_result, as)
    /\ UNCHANGED Frame

SegExistsDone(exists_result) ==
    /\ ~crashed
    /\ det.at = "seg_exists"
    /\ det' = OnSegExists(det, exists_result, as)
    /\ UNCHANGED Frame

\* What a spillover manifest may decode to, and what the one being
\* downloaded may.
AllSpillContents == UNION {ManifestContents(SpillSlots(k)) : k \in 1 .. MaxSpill}
SpillContents ==
    ManifestContents(SpillSlots(DescOf(det.spill_manifest_paths[det.path_idx])))

SpillDlDone(manifest_get_result, content) ==
    /\ ~crashed
    /\ det.at = "spill_dl"
    /\ content \in SpillContents
    /\ det' = OnSpillDl(det, manifest_get_result, content, as)
    /\ UNCHANGED Frame

\* EarlyReturn without the abort_requested() test.
EarlyReturnNoAbortCheck(detect_result, abort) == detect_result.status = "failed"

\* The two early returns of scrubber::run after detection.
EarlyReturn(detect_result, abort) == detect_result.status = "failed" \/ abort

\* What scrubber::run gives back, with the record of how it got there.
Returned(r, status, replicate_result, picks) ==
    [NoLast EXCEPT !.status = status, !.quota = r.quota,
                   !.consumed = r.consumed, !.remaining = r.remaining,
                   !.ops = r.detect_result.ops,
                   !.detect_status = r.detect_result.status,
                   !.process_anomalies_calls = r.process_anomalies_calls,
                   !.picks = picks, !.cancelled = r.cancelled,
                   !.replicate_result = replicate_result]

\* scrubber::run resumes with the detector's result: the quota accounting,
\* the two early returns, and the call of process_anomalies.
Detected ==
    /\ ~crashed
    /\ run.pc = "detecting"
    /\ det.at = "returned"
    /\ LET detect_result == det.ret
           consumed == Consumed(detect_result.ops)
           remaining == Remaining(run.quota, consumed)
           r == [run EXCEPT !.consumed = consumed, !.remaining = remaining,
                            !.detect_result = detect_result,
                            !.cancelled = (det.cancel_phase # "none")]
       IN IF EarlyReturn(detect_result, as)
          THEN /\ last' = Returned(r, "failed", "none", 0)
               /\ run' = IdleRun
               /\ gate_count' = gate_count - 1
          ELSE /\ run' = [r EXCEPT !.pc = "process_anomalies",
                                   !.submitted = [detect_result EXCEPT !.ops = 0],
                                   !.process_anomalies_calls = @ + 1]
               /\ UNCHANGED <<last, gate_count>>
    /\ det' = IdleFrame
    /\ UNCHANGED <<as, gate_closed, holder, job_enabled, config_enabled,
                   feature_active, feature_task, next_scrub, crashed>>
    /\ UNCHANGED Aside

\* RunStatus reporting ok whatever the archiver said.
RunStatusAlwaysOk(replicate_result) == "ok"

\* The run_status of a run that reached process_anomalies.
RunStatus(replicate_result) ==
    IF replicate_result = "success" THEN "ok" ELSE "failed"

\* SchedulerAfterPersist drawing a new target only when the archiver accepted
\* the anomalies.
SchedulerAfterPersistOnlyOnSuccess(ns, replicate_result) ==
    IF replicate_result = "success" THEN PickNextScrubTime(ns) ELSE ns

\* The scheduler once process_anomalies has completed: pick_next_scrub_time
\* is called whatever the archiver said.
SchedulerAfterPersist(ns, replicate_result) == PickNextScrubTime(ns)

\* process_anomalies completes: the scheduler is advanced, the run returns.
ProcessAnomaliesDone(replicate_result) ==
    /\ ~crashed
    /\ run.pc = "process_anomalies"
    /\ next_scrub' = SchedulerAfterPersist(next_scrub, replicate_result)
    /\ last' = Returned(run, RunStatus(replicate_result), replicate_result, 1)
    /\ run' = IdleRun
    /\ gate_count' = gate_count - 1
    /\ UNCHANGED <<as, gate_closed, holder, job_enabled, config_enabled,
                   feature_active, feature_task, crashed, det>>
    /\ UNCHANGED Aside

\* _as.request_abort(): the flag, and the subscription of await_feature.
RequestAbort ==
    /\ as' = TRUE
    /\ feature_task' = IF feature_task = "waiting" THEN "aborted" ELSE feature_task
    /\ det' = IF ~as /\ det.cancel_phase = "none"
              THEN [det EXCEPT !.cancel_phase = Phase(det)]
              ELSE det

\* scrubber::interrupt
Interrupt ==
    /\ ~crashed
    /\ RequestAbort
    /\ UNCHANGED <<gate_count, gate_closed, holder, job_enabled, config_enabled,
                   feature_active, next_scrub, crashed, run, last>>
    /\ UNCHANGED Aside

\* scrubber::stop: the returned future resolves once the gate is empty.
Stop ==
    /\ ~crashed
    /\ ~gate_closed
    /\ RequestAbort
    /\ gate_closed' = TRUE
    /\ UNCHANGED <<gate_count, holder, job_enabled, config_enabled,
                   feature_active, next_scrub, crashed, run, last>>
    /\ UNCHANGED Aside

\* scrubber::set_enabled.  Only should_skip reads _job_enabled, once, at the
\* entry of run: a call made while a run is suspended acts as one made right
\* after that run.
SetEnabled(e) ==
    /\ ~crashed
    /\ run.pc = "idle"
    /\ job_enabled' = e
    /\ UNCHANGED <<as, gate_count, gate_closed, holder, config_enabled,
                   feature_active, feature_task, next_scrub, crashed, run, det,
                   last>>
    /\ UNCHANGED Aside

\* scrubber::acquire
Acquire ==
    /\ ~crashed
    /\ IF holder # "none"
       THEN crashed' = TRUE /\ UNCHANGED <<holder, gate_count>>
       ELSE IF gate_closed
       THEN UNCHANGED <<holder, gate_count, crashed>>
       ELSE holder' = "held" /\ gate_count' = GateEnter(gate_count)
            /\ UNCHANGED crashed
    /\ UNCHANGED <<as, gate_closed, job_enabled, config_enabled, feature_active,
                   feature_task, next_scrub, run, det, last>>
    /\ UNCHANGED Aside

\* scrubber::release
Release ==
    /\ ~crashed
    /\ IF holder = "none"
       THEN crashed' = TRUE /\ UNCHANGED <<holder, gate_count>>
       ELSE IF holder = "held"
       THEN holder' = "released" /\ gate_count' = gate_count - 1 /\ UNCHANGED crashed
       ELSE UNCHANGED <<holder, gate_count, crashed>>
    /\ UNCHANGED <<as, gate_closed, job_enabled, config_enabled, feature_active,
                   feature_task, next_scrub, run, det, last>>
    /\ UNCHANGED Aside

\* The cluster activates the cloud_storage_scrubbing feature.
FeatureActivate ==
    /\ ~crashed
    /\ ~feature_active
    /\ feature_active' = TRUE
    /\ feature_task' = IF feature_task = "waiting" THEN "woken" ELSE feature_task
    /\ UNCHANGED <<as, gate_count, gate_closed, holder, job_enabled,
                   config_enabled, next_scrub, crashed, run, det, last>>
    /\ UNCHANGED Aside

\* scrubber::await_feature_enabled resumes after await_feature.
AwaitFeatureEnabled ==
    /\ ~crashed
    /\ feature_task \in {"woken", "aborted"}
    /\ next_scrub' = IF feature_task = "woken" THEN PickNextScrubTime(next_scrub)
                     ELSE next_scrub
    /\ feature_task' = "done"
    /\ gate_count' = gate_count - 1
    /\ UNCHANGED <<as, gate_closed, holder, job_enabled, config_enabled,
                   feature_active, crashed, run, det, last>>
    /\ UNCHANGED Aside

\* The cloud_storage_enable_scrubbing binding is updated (read by
\* should_skip alone, like _job_enabled).
ConfigUpdate(b) ==
    /\ ~crashed
    /\ run.pc = "idle"
    /\ config_enabled' = b
    /\ UNCHANGED <<as, gate_count, gate_closed, holder, job_enabled,
                   feature_active, feature_task, next_scrub, crashed, run, det,
                   last>>
    /\ UNCHANGED Aside

\* The clock reaches the scheduler's target.
ScrubDue ==
    /\ ~crashed
    /\ next_scrub = "future"
    /\ next_scrub' = "due"
    /\ UNCHANGED <<as, gate_count, gate_closed, holder, job_enabled,
                   config_enabled, feature_active, feature_task, crashed, run,
                   det, last>>
    /\ UNCHANGED Aside

Next ==
    \/ \E q \in Quotas : Run(q)
    \/ \E r \in DownloadResult, f \in ManifestFormat, m \in PartitionManifests :
          MainDlDone(r, f, m)
    \/ \E r \in DownloadResult : SpillExistsDone(r)
    \/ \E r \in DownloadResult : SegExistsDone(r)
    \/ \E r \in DownloadResult, c \in AllSpillContents : SpillDlDone(r, c)
    \/ Detected
    \/ \E e \in ReplicateResults : ProcessAnomaliesDone(e)
    \/ Interrupt
    \/ Stop
    \/ \E e \in BOOLEAN : SetEnabled(e)
    \/ Acquire
    \/ Release
    \/ FeatureActivate
    \/ AwaitFeatureEnabled
    \/ \E b \in BOOLEAN : ConfigUpdate(b)
    \/ ScrubDue

Spec == Init /\ [][Next]_vars

\* ------------------------------------------------- operator+= on its own
\* Most operations an operand of operator+= has counted.
MaxMergeOps == 1

\* The results operator+= is applied to.
MergeResults ==
    [status : ScrubStatus,
     ops : 0 .. MaxMergeOps,
     detected : {EmptyAnomalies,
                 [EmptyAnomalies EXCEPT !.missing_partition_manifest = TRUE]}]

InitMerge ==
    /\ Constructed
    /\ \E x \in MergeResults, y \in MergeResults, z \in MergeResults :
          operands = [NoOperands EXCEPT !.step = 1, !.x = x, !.y = y, !.z = z]
    /\ remote = UnsetRemote
    /\ earlier = NoResult

\* x += y, y += x and y += z, each on a copy of its left operand.
MergePair ==
    /\ operands.step = 1
    /\ operands' = [operands EXCEPT
                       !.step = 2,
                       !.xy = ResultMerge(operands.x, operands.y),
                       !.yx = ResultMerge(operands.y, operands.x),
                       !.yz = ResultMerge(operands.y, operands.z)]
    /\ UNCHANGED <<as, gate_count, gate_closed, holder, job_enabled,
                   config_enabled, feature_active, feature_task, next_scrub,
                   crashed, run, det, last, remote, earlier>>

\* (x += y) += z and x += (y += z).
MergeTriple ==
    /\ operands.step = 2
    /\ operands' = [operands EXCEPT
                       !.step = 3,
                       !.xy_z = ResultMerge(operands.xy, operands.z),
                       !.x_yz = ResultMerge(operands.x, operands.yz)]
    /\ UNCHANGED <<as, gate_count, gate_closed, holder, job_enabled,
                   config_enabled, feature_active, feature_task, next_scrub,
                   crashed, run, det, last, remote, earlier>>

NextMerge == MergePair \/ MergeTriple

SpecMerge == InitMerge /\ [][NextMerge]_vars

\* ------------------------------------------- two runs, the remote unchanged
\* The remote does not change: a call it has answered before gets the same
\* answer again (before: the answers given to that call so far).
Told(before, answer) == before \subseteq {answer}

NotRemote == <<as, gate_count, gate_closed, holder, job_enabled, config_enabled,
               feature_active, feature_task, next_scrub, crashed, run, last,
               operands>>

\* anomalies_detector::run is called, a first and a second time.
SameDetect ==
    /\ det.at \in {"none", "returned"}
    /\ earlier = NoResult
    /\ earlier' = det.ret
    /\ det' = DetectorRun
    /\ UNCHANGED <<NotRemote, remote>>

SameMainDl(dl_result, format, manifest) ==
    LET answer == [result |-> dl_result, format |-> format, manifest |-> manifest]
    IN /\ det.at = "main_dl"
       /\ Told(remote.main, answer)
       /\ remote' = [remote EXCEPT !.main = {answer}]
       /\ det' = OnMainDl(det, dl_result, format, manifest, as)
       /\ UNCHANGED <<NotRemote, earlier>>

SameSpillExists(exists_result) ==
    /\ det.at = "spill_exists"
    /\ Told(remote.exists[det.iter], exists_result)
    /\ remote' = [remote EXCEPT !.exists[det.iter] = {exists_result}]
    /\ det' = OnSpillExists(det, exists_result, as)
    /\ UNCHANGED <<NotRemote, earlier>>

SameSegExists(exists_result) ==
    /\ det.at = "seg_exists"
    /\ LET m == IF det.cm_of = "stm" THEN det.manifest ELSE det.spill
           g == m[det.seg_iter].base_offset
       IN /\ Told(remote.seg[g], exists_result)
          /\ remote' = [remote EXCEPT !.seg[g] = {exists_result}]
    /\ det' = OnSegExists(det, exists_result, as)
    /\ UNCHANGED <<NotRemote, earlier>>

SameSpillDl(manifest_get_result, content) ==
    /\ det.at = "spill_dl"
    /\ content \in SpillContents
    /\ LET k == DescOf(det.spill_manifest_paths[det.path_idx])
           answer == [result |-> manifest_get_result, content |-> content]
       IN /\ Told(remote.dl[k], answer)
          /\ remote' = [remote EXCEPT !.dl[k] = {answer}]
    /\ det' = OnSpillDl(det, manifest_get_result, content, as)
    /\ UNCHANGED <<NotRemote, earlier>>

\* The answers of the fixed remote: one failure stands for all of them, the
\* detector tells NotFound and success from the rest and nothing more.
RemoteAnswers == {"success", "notfound", "timedout"}

NextSameRemote ==
    \/ SameDetect
    \/ \E r \in RemoteAnswers, f \in ManifestFormat, m \in PartitionManifests :
          SameMainDl(r, f, m)
    \/ \E r \in RemoteAnswers : SameSpillExists(r)
    \/ \E r \in RemoteAnswers : SameSegExists(r)
    \/ \E r \in RemoteAnswers, c \in AllSpillContents : SameSpillDl(r, c)

InitSameRemote == Init /\ config_enabled

SpecSameRemote == InitSameRemote /\ [][NextSameRemote]_vars

\* ------------------------------------------------------------- properties
OnlyMainDl == [NoCalls EXCEPT !["main_dl"] = 1]

\* The spillover descriptors whose existence check answered a.
Answered(a) == {SpillComp(k) : k \in {i \in 1 .. MaxSpill : det.exists_seen[i] = a}}

\* C1: when the partition manifest download answers NotFound, the detector
\* returns at once with status full, missing_partition_manifest set and
\* ops = 1, and the download is the only remote call of the run.
C1_MainNotFound ==
    det.main_seen.result = "notfound" =>
        /\ det.at = "returned"
        /\ det.ret.status = "full"
        /\ det.ret.detected.missing_partition_manifest
        /\ det.ret.ops = 1
        /\ det.calls = OnlyMainDl

C1_Witness == det.at = "returned" /\ det.main_seen.result = "notfound"

\* C2: when the partition manifest download answers anything but success or
\* NotFound, the detector returns at once with status failed, ops = 1 and no
\* anomaly, and the download is the only remote call of the run.
C2_MainFailed ==
    det.main_seen.result \in DownloadResult \ {"success", "notfound"} =>
        /\ det.at = "returned"
        /\ det.ret.status = "failed"
        /\ det.ret.detected = EmptyAnomalies
        /\ det.ret.ops = 1
        /\ det.calls = OnlyMainDl

C2_Witness == det.at = "returned" /\ det.main_seen.result = "timedout"

\* C3: a spillover descriptor whose existence check fails transiently makes
\* the run partial, is recorded as no anomaly, and its path is neither
\* retained nor downloaded.
C3_SpillExistsFailure ==
    \A comp \in Answered("failure") :
        /\ comp \notin Range(det.spill_manifest_paths)
        /\ comp \notin det.retained
        /\ comp \notin det.dl_issued
        /\ det.at = "returned" =>
              /\ det.ret.status = "partial"
              /\ comp \notin det.ret.detected.missing_spillover_manifests

\* C4: a spillover descriptor whose existence check answers NotFound is in
\* missing_spillover_manifests of the returned result, and its manifest is
\* never retained for download nor downloaded.
C4_SpillNotFound ==
    \A comp \in Answered("notfound") :
        /\ comp \notin Range(det.spill_manifest_paths)
        /\ comp \notin det.retained
        /\ comp \notin det.dl_issued
        /\ det.at = "returned" =>
              comp \in det.ret.detected.missing_spillover_manifests

C4_Witness ==
    /\ det.at = "returned"
    /\ Answered("notfound") # {}
    /\ det.dl_issued # {}

\* The partition manifest of the run was downloaded in the JSON encoding.
JsonFetched ==
    det.main_seen.result = "success" /\ det.main_seen.format = "json"

\* C5 as claimed: a JSON partition manifest with at least one spillover
\* descriptor always has missing_partition_manifest set in the result.
C5_JsonAnyDescriptor ==
    (det.at = "returned" /\ JsonFetched /\ det.main_seen.spillovers >= 1)
        => det.ret.detected.missing_partition_manifest

\* C5 amended: a JSON partition manifest has missing_partition_manifest set
\* in the result when the path of at least one spillover descriptor was
\* retained (its existence check did not answer NotFound), and not set when
\* no path was retained.
C5_JsonRetained ==
    (det.at = "returned" /\ JsonFetched) =>
        (det.ret.detected.missing_partition_manifest <=> det.retained # {})

C5_Witness ==
    /\ det.at = "returned"
    /\ JsonFetched
    /\ det.retained # {}
    /\ Answered("notfound") # {}

\* C6: once a cancellation requested during the traversal of the spillover
\* chain is seen at a checkpoint, the run issues no further remote call (no
\* download in particular) and returns partial, with every anomaly recorded
\* so far and ops equal to the number of calls issued before the checkpoint.
C6_CancelInChain ==
    (det.cancel_phase = "chain" /\ det.cancel_calls # NoSnapshot) =>
        /\ det.at = "returned"
        /\ det.calls = det.cancel_calls
        /\ det.ret.status = "partial"
        /\ det.ret.ops = Total(det.cancel_calls)
        /\ det.ret.detected.missing_segments = det.seg_notfound
        /\ det.ret.detected.missing_spillover_manifests = Answered("notfound")

C6_Witness ==
    /\ det.at = "returned"
    /\ det.cancel_phase = "chain"
    /\ det.cancel_calls # NoSnapshot
    /\ det.dl_issued # {}
    /\ det.dl_issued # det.retained

Min(a, b) == IF a < b THEN a ELSE b
Max(a, b) == IF a > b THEN a ELSE b

\* scrubber::run has given a run_result to its caller.
RunReturned == last.status \in {"ok", "failed", "skipped"}

\* The quota accounting of a run that was not skipped.
QuotaAccounted ==
    last.status \in {"ok", "failed"} =>
        /\ last.consumed = Min(last.ops, SignedMax)
        /\ last.remaining = Max(0, last.quota - last.consumed)

\* C7 as claimed: a non-skipped run reports consumed = min(ops, signed max)
\* and remaining = max(0, quota - consumed), and no result of run, skipped
\* ones included, has consumed above the signed maximum or remaining below 0.
C7_QuotaNeverNegative ==
    RunReturned =>
        /\ QuotaAccounted
        /\ last.consumed <= SignedMax
        /\ last.remaining >= 0

\* C7 amended: a non-skipped run reports consumed = min(ops, signed max) and
\* remaining = max(0, quota - consumed) >= 0; a skipped run reports
\* consumed = 0 and remaining = quota, which is negative for a negative
\* quota; consumed never exceeds the signed maximum.
C7_QuotaAccounting ==
    RunReturned =>
        /\ QuotaAccounted
        /\ last.consumed <= SignedMax
        /\ last.status # "skipped" => last.remaining >= 0
        /\ last.status = "skipped" =>
              last.consumed = 0 /\ last.remaining = last.quota

C7_Witness ==
    /\ last.status \in {"ok", "failed"}
    /\ last.ops > SignedMax
    /\ last.consumed = SignedMax
    /\ last.remaining = 0

\* The reason should_skip owes in the current state, "none" when the run is
\* due.
SkipReasons ==
    IF ~feature_active THEN {"cloud_storage_scrubbing feature not active"}
    ELSE IF ~job_enabled THEN {"scrubber housekeeping job disabled"}
    ELSE IF ~config_enabled THEN {"scrubber disabled via cluster config"}
    ELSE IF next_scrub = "none" THEN {"next scrub not scheduled"}
    ELSE IF next_scrub = "future" THEN {"next scrub in"}
    ELSE {"none"}

\* A step in which scrubber::run is entered through the open gate.
RunEntered(q) == ~gate_closed /\ Run(q)

\* C8: run is skipped exactly when the feature is inactive, the job is
\* disabled, the configuration flag is false or the scrub is not due; the
\* reason is that of the first of these that holds; a skipped run issues no
\* remote call, calls no process_anomalies, leaves the scheduler alone and
\* returns consumed = 0 and remaining = quota.
C8_Skip ==
    [][\A q \in Quotas :
          RunEntered(q) =>
              /\ (last'.status = "skipped") <=> (SkipReasons # {"none"})
              /\ last'.status = "skipped" =>
                    /\ last'.reason \in SkipReasons
                    /\ last'.consumed = 0
                    /\ last'.remaining = q
                    /\ last'.process_anomalies_calls = 0
                    /\ run' = run
                    /\ det' = det /\ det.at = "none"
                    /\ next_scrub' = next_scrub
                    /\ gate_count' = gate_count
              /\ last'.status # "skipped" =>
                    det'.at = "main_dl" /\ run'.pc = "detecting"]_vars

C8_Witness ==
    /\ last.status = "skipped"
    /\ last.reason = "scrubber housekeeping job disabled"
    /\ ~job_enabled
    /\ ~config_enabled
    /\ det.at = "none"

\* A step in which scrubber::run resumes with the detector's result.
DetectionCompletes == run.pc = "detecting" /\ det.at = "returned" /\ run' # run

\* C9: a run whose detection failed, or whose cancellation was requested at
\* any time up to the completion of detection, returns failed without
\* calling process_anomalies and without advancing the scheduler; so no run
\* that was cancelled by then returns ok.
C9_FailedOrCancelled ==
    /\ [][(DetectionCompletes /\ (det.ret.status = "failed" \/ as)) =>
              /\ run'.pc = "idle"
              /\ last'.status = "failed"
              /\ last'.process_anomalies_calls = 0
              /\ next_scrub' = next_scrub]_vars
    /\ [](run.pc = "detecting" => (as <=> det.cancel_phase # "none"))
    /\ [](run.pc = "process_anomalies" => ~run.cancelled)
    /\ [](last.status = "ok" => ~last.cancelled)

C9_Witness ==
    /\ last.status = "failed"
    /\ last.cancelled
    /\ last.detect_status = "partial"
    /\ last.process_anomalies_calls = 0
    /\ next_scrub = "due"

\* C10: when detection returns full or partial and no cancellation has been
\* requested, run hands the detected anomalies and the detection status to
\* process_anomalies exactly once, returns ok exactly when the archiver
\* reports success, and advances the scheduler exactly once either way.
C10_Persist ==
    /\ [][(DetectionCompletes /\ det.ret.status # "failed" /\ ~as) =>
              /\ run'.pc = "process_anomalies"
              /\ run'.process_anomalies_calls = 1
              /\ run'.submitted.status = det.ret.status
              /\ run'.submitted.detected = det.ret.detected
              /\ next_scrub' = next_scrub]_vars
    /\ [][(run.pc = "process_anomalies" /\ run' # run) =>
              /\ run'.pc = "idle"
              /\ (last'.status = "ok") <=> (last'.replicate_result = "success")
              /\ last'.status \in {"ok", "failed"}
              /\ last'.process_anomalies_calls = 1
              /\ next_scrub = "due" /\ next_scrub' = "future"]_vars
    /\ [][(run.pc = "process_anomalies" /\ run' = run) =>
              next_scrub' = next_scrub]_vars

C10_Witness ==
    /\ last.status = "failed"
    /\ last.replicate_result = "not_leader"
    /\ last.detect_status = "partial"
    /\ last.process_anomalies_calls = 1
    /\ next_scrub = "future"

\* A call of scrubber::run that was not skipped returns on this step.
NonSkippedReturn == run.pc # "idle" /\ run'.pc = "idle"

\* C11 (as claimed): every run that was not skipped returns with the
\* scheduler having drawn a new target, whether it returns ok or failed.
C11_PickAfterEveryRun ==
    [][NonSkippedReturn => (next_scrub = "due" /\ next_scrub' = "future")]_vars

\* C11: a run that was not skipped draws a new target exactly when it reached
\* process_anomalies, whether the archiver accepted the anomalies or not; the
\* two early failed returns (detection failed, cancellation requested) leave
\* the scheduler as it was, still due.
C11_PickAfterPersist ==
    [][NonSkippedReturn =>
        /\ next_scrub = "due"
        /\ last'.replicate_result # "none" =>
               /\ run.pc = "process_anomalies"
               /\ next_scrub' = "future"
        /\ last'.replicate_result = "none" =>
               /\ run.pc = "detecting"
               /\ last'.status = "failed"
               /\ last'.detect_status = "failed" \/ as
               /\ next_scrub' = next_scrub]_vars

\* A run whose detection completed but was cancelled before persistence has
\* returned failed, and the target it ran for is still due.
C11_Witness ==
    /\ run.pc = "idle"
    /\ last.status = "failed"
    /\ last.detect_status = "full"
    /\ last.replicate_result = "none"
    /\ last.process_anomalies_calls = 0
    /\ next_scrub = "due"

\* The future stop() returned has resolved: gate::close() resolves when the
\* closed gate has no holder left.
StopCompleted == gate_closed /\ gate_count = 0

\* Who holds the gate: a call of run in progress, the await_feature_enabled
\* task, the manual token.
GateHolders ==
    (IF run.pc # "idle" THEN 1 ELSE 0)
    + (IF feature_task # "done" THEN 1 ELSE 0)
    + (IF holder = "held" THEN 1 ELSE 0)

\* C12: stop() requests cancellation; its completion is signalled only once
\* every call of run in progress has returned, the await_feature_enabled
\* task has finished and a manually acquired token has been released; once
\* it is signalled no detector call is issued, no run enters the gate and
\* no acquire takes the token, whatever the interleaving.
C12_StopDrains ==
    /\ [](gate_closed => as)
    /\ [](gate_count = GateHolders)
    /\ [](StopCompleted =>
            /\ run.pc = "idle"
            /\ det.at = "none"
            /\ feature_task = "done"
            /\ holder # "held")
    /\ [][StopCompleted =>
            /\ StopCompleted'
            /\ UNCHANGED <<run, det, holder, gate_count, feature_task>>
            /\ last' # last => last'.status = "gate_closed_exception"]_vars

\* stop() has completed: the run that was cancelled has returned failed, the
\* await_feature_enabled task is over and the token that had been acquired
\* is released.
C12_Witness ==
    /\ StopCompleted
    /\ holder = "released"
    /\ feature_task = "done"
    /\ last.status = "failed"
    /\ last.cancelled
    /\ last.ops > 1

\* C13: acquire() while the token is manually held trips a fatal assertion,
\* and so does release() while it is not manually held, be it never
\* acquired or already released: no such call goes through.
C13_MisuseFatal ==
    ~crashed =>
        /\ holder = "held" => ~ENABLED (Acquire /\ ~crashed')
        /\ holder # "held" => ~ENABLED (Release /\ ~crashed')

\* C20: the manual token is reusable: once acquired and released, it can be
\* acquired again on an open gate without a fatal assertion.
C20_TokenReusable ==
    (~crashed /\ ~gate_closed /\ holder = "released") =>
        ENABLED (Acquire /\ ~crashed' /\ holder' = "held")

\* The place in the chain of the manifest a segment belongs to: 1 .. n for
\* the spillover manifests, oldest first, n + 1 for the partition manifest.
ManifestOf(seg) ==
    IF seg.base_offset > det.main_seen.spillovers * MaxSpillSegs
    THEN det.main_seen.spillovers + 1
    ELSE ((seg.base_offset - 1) \div MaxSpillSegs) + 1

\* C16: the boundary segment is dropped when a spillover manifest fails to
\* download and when the downloaded one is empty, and is the manifest's
\* first segment otherwise; so the last segment of a spillover manifest is
\* only ever compared with the first segment of the manifest right before
\* it in the chain of retained paths, never across a failed or an empty one.
C16_BoundaryAdjacent ==
    det.at = "returned" =>
        \A a \in det.ret.detected.segment_metadata_anomalies :
            \A k \in (ManifestOf(a.previous) + 1) .. (ManifestOf(a.at) - 1) :
                SpillComp(k) \notin det.retained

\* The status and the anomalies a run has gathered so far, wherever the
\* frame keeps them.
GatheredSoFar(d) ==
    IF d.at = "returned" THEN d.ret
    ELSE ResultMerge(
             ResultMerge([status |-> d.status, detected |-> d.detected, ops |-> 0],
                         d.final_res),
             d.res)

\* A remote call completes on this step, one of its answers being NotFound.
NotFoundAnswered ==
    \/ \E f \in ManifestFormat, m \in PartitionManifests :
          MainDlDone("notfound", f, m)
    \/ SpillExistsDone("notfound")
    \/ SegExistsDone("notfound")
    \/ \E c \in AllSpillContents : SpillDlDone("notfound", c)

\* C18: whichever remote call answers NotFound (partition manifest download,
\* spillover existence check, segment existence check, spillover manifest
\* download), an anomaly is recorded for it and the status is not moved by
\* it: the absent object is a finding, never a failure.
C18_NotFoundIsAnomaly ==
    [][NotFoundAnswered =>
          /\ GatheredSoFar(det').detected # GatheredSoFar(det).detected
          /\ ~as => GatheredSoFar(det').status = GatheredSoFar(det).status]_vars

\* The cancellation was requested while the run was under way, after the
\* partition manifest had been downloaded.
CancelledUnderWay == det.cancel_phase \in {"spill_exists", "stm_check", "chain"}

\* C19 (as claimed): a cancellation requested at any point of a detector run
\* after the partition manifest was downloaded makes the run return partial,
\* never full.
C19_CancelAlwaysPartial ==
    (det.at = "returned" /\ CancelledUnderWay) => det.ret.status = "partial"

\* C19: cancellation is seen at the checkpoints only (before a segment
\* existence check, before an iteration over the spillover chain).  A run
\* that reaches one after the request returns partial with no further remote
\* call; after the request the run issues no segment existence check and no
\* download, only the spillover existence checks still to do; a run that
\* returns full although cancelled under way met no checkpoint.
C19_CancelAtCheckpoints ==
    /\ [](det.cancel_calls # NoSnapshot =>
            /\ det.at = "returned"
            /\ det.ret.status = "partial"
            /\ det.calls = det.cancel_calls
            /\ det.cancel_phase # "none")
    /\ [][(as /\ det.at \in CallKinds /\ det' # det) =>
            \/ det'.at = "returned"
            \/ /\ det.at \in {"main_dl", "spill_exists"}
               /\ det'.at = "spill_exists"]_vars
    /\ []((det.at = "returned" /\ CancelledUnderWay /\ det.ret.status = "full") =>
            det.cancel_calls = NoSnapshot)

\* A cancellation requested during the spillover existence checks was seen
\* at the first checkpoint of check_manifest: the run returned partial.
C19_Witness ==
    /\ det.at = "returned"
    /\ det.cancel_phase = "spill_exists"
    /\ det.cancel_calls # NoSnapshot
    /\ det.ret.status = "partial"
    /\ det.calls["seg_exists"] = 0

\* The manifest check_manifest is going through and the segment whose
\* existence check is in flight.
ManifestChecked == IF det.cm_of = "stm" THEN det.manifest ELSE det.spill
SegmentChecked == ManifestChecked[det.seg_iter]

\* C17: in check_manifest every segment reached before a cancellation is
\* seen costs exactly one operation and is compared with the segment right
\* before it in the same manifest, whatever its existence check answers;
\* NotFound adds it to missing_segments and leaves the status alone, any
\* other failure makes the status partial and adds nothing; a cancellation
\* seen before a segment makes the result partial with no operation counted
\* for that segment or a later one.
C17_CheckManifest ==
    /\ [](det.at = "seg_exists" =>
            /\ det.seg_iter \in 1 .. Len(ManifestChecked)
            /\ det.res.ops = det.seg_iter - 1
            /\ det.previous_seg_meta =
                   IF det.seg_iter = 1 THEN NoSeg
                   ELSE ManifestChecked[det.seg_iter - 1])
    /\ [][\A r \in DownloadResult : SegExistsDone(r) =>
            /\ GatheredSoFar(det').ops =
                   (GatheredSoFar(det).ops + 1
                    + (IF det'.at = "spill_dl" THEN 1 ELSE 0)) % UnsignedMod
            /\ det.previous_seg_meta # NoSeg =>
                   <<SegmentChecked, det.previous_seg_meta>> \in det'.compared
            /\ (SegmentChecked \in GatheredSoFar(det').detected.missing_segments)
                   <=> r = "notfound"
            /\ r \notin {"success", "notfound"} =>
                   GatheredSoFar(det').status = "partial"
            /\ (r \in {"success", "notfound"} /\ ~as) =>
                   GatheredSoFar(det').status = GatheredSoFar(det).status]_vars
    /\ [](det.at = "returned" =>
            /\ det.ret.ops = Total(det.calls) % UnsignedMod
            /\ det.ret.detected.missing_segments = det.seg_notfound)
    /\ [](det.cancel_calls # NoSnapshot =>
            /\ det.ret.status = "partial"
            /\ det.ret.ops = Total(det.cancel_calls) % UnsignedMod)

\* Both segments of a partition manifest were checked: the first one is
\* missing, the check of the second one failed, and the second was compared
\* with the first all the same.
C17_Witness ==
    /\ det.at = "returned"
    /\ det.calls["seg_exists"] = 2
    /\ det.main_seen.spillovers = 0
    /\ Cardinality(det.seg_notfound) = 1
    /\ det.ret.status = "partial"
    /\ det.compared # {}
    /\ det.cancel_phase = "none"

\* C14: the status merge of operator+= has failed absorbing on either side,
\* partial winning over full on either side and full with full giving full;
\* it is commutative and associative; the ops of a merged result are the sum
\* of the ops of the two operands.
C14_MergeAlgebra ==
    LET x == operands.x
        y == operands.y
        z == operands.z
    IN /\ operands.step >= 2 =>
            /\ ("failed" \in {x.status, y.status}) =>
                   operands.xy.status = "failed" /\ operands.yx.status = "failed"
            /\ {x.status, y.status} = {"partial", "full"} =>
                   operands.xy.status = "partial" /\ operands.yx.status = "partial"
            /\ {x.status, y.status} = {"full"} => operands.xy.status = "full"
            /\ operands.xy.status = operands.yx.status
            /\ operands.xy.ops = x.ops + y.ops
            /\ operands.yx.ops = x.ops + y.ops
       /\ operands.step = 3 =>
            /\ operands.xy_z.status = operands.x_yz.status
            /\ operands.xy_z.ops = x.ops + y.ops + z.ops
            /\ operands.x_yz.ops = x.ops + y.ops + z.ops

\* partial, failed and full were merged both ways round: failed came out,
\* with the three counts added up.
C14_Witness ==
    /\ operands.step = 3
    /\ operands.x.status = "partial"
    /\ operands.y.status = "failed"
    /\ operands.z.status = "full"
    /\ operands.xy_z.status = "failed"
    /\ operands.x_yz.status = "failed"
    /\ operands.xy_z.ops = 3 * MaxMergeOps

====
